---- MODULE Spec2Model ----
(***************************************************************************)
(* Model of the Fast-Log front end (src/logger.h): the size calculator,    *)
(* the serializer, the record header with its bound formatter, the         *)
(* formatter dispatcher, the LOG macro, and the channel the header         *)
(* declares (GetWriteBuffer / GetNextReadBuffer / Consume).                *)
(*                                                                         *)
(* Memory is a sequence of cells <<b, n>>: n consecutive bytes of value b. *)
(* An ordinary byte is <<b, 1>>; a longer run stands for a very long text  *)
(* whose bytes are not enumerated one by one.                              *)
(***************************************************************************)
EXTENDS Integers, Sequences, FiniteSets

\* ------------------------------------------------------------------ bounds
MaxArgs == 2
MaxFmtLen == 3
MaxRecords == 3
MaxDrains == 2

\* ------------------------------------------------------- program constants
\* '\0', the terminator of a C string
NUL == 0
\* '%', the placeholder marker
Pct == 37
\* '\n', what std::endl writes
NL == 10
\* sizeof(Header): three 8-byte fields on LP64
SizeofHeader == 24
\* sizeof(int)
SizeofInt == 4
\* sizeof(const char*)
SizeofPtr == 8
\* sizeof(std::string)
SizeofString == 32
\* INT_MAX, the largest value of GetWriteBuffer's int parameter
IntMax == 2147483647

\* ------------------------------------------------------------ byte strings
Cell(b) == <<b, 1>>

RECURSIVE Width(_)
\* number of bytes a cell sequence occupies
Width(cells) ==
    IF cells = <<>> THEN 0 ELSE cells[1][2] + Width(Tail(cells))

RECURSIVE StrPrefix(_)
\* the bytes of a C string: everything before its first NUL
StrPrefix(cells) ==
    IF cells = <<>> \/ cells[1][1] = NUL THEN <<>>
    ELSE <<cells[1]>> \o StrPrefix(Tail(cells))

\* std::strlen
StrLen(cells) == Width(StrPrefix(cells))

RECURSIVE DropBytes(_, _)
\* pointer arithmetic: the memory that starts n bytes further
DropBytes(cells, n) ==
    IF n <= 0 \/ cells = <<>> THEN cells
    ELSE IF cells[1][2] <= n THEN DropBytes(Tail(cells), n - cells[1][2])
    ELSE << <<cells[1][1], cells[1][2] - n>> >> \o Tail(cells)

\* the byte at offset off (0-based); memory past the modelled end reads as 0
ByteAt(cells, off) ==
    LET rest == DropBytes(cells, off) IN IF rest = <<>> THEN 0 ELSE rest[1][1]

\* std::strstr(format, "%"): index of the first '%', 0 when there is none (NULL)
StrStr(format) ==
    IF \E i \in DOMAIN format : format[i][1] = Pct
    THEN CHOOSE i \in DOMAIN format :
             format[i][1] = Pct /\ \A j \in 1..(i - 1) : format[j][1] # Pct
    ELSE 0

\* ------------------------------------------------------- the int encoding
\* the four bytes of an int, little endian, two's complement
IntBytes(v) ==
    LET u == IF v >= 0 THEN v ELSE -(v + 1)
        b(k) == (u \div (256 ^ k)) % 256
        c(k) == IF v >= 0 THEN b(k) ELSE 255 - b(k)
    IN  [k \in 1..SizeofInt |-> Cell(c(k - 1))]

\* the int stored at offset off of mem
IntAt(mem, off) ==
    LET c(k) == ByteAt(mem, off + k)
    IN  IF c(3) < 128
        THEN c(0) + 256 * c(1) + 65536 * c(2) + 16777216 * c(3)
        ELSE -1 - ((255 - c(0)) + 256 * (255 - c(1)) + 65536 * (255 - c(2))
                  + 16777216 * (255 - c(3)))

RECURSIVE Digits(_)
Digits(n) ==
    IF n < 10 THEN <<Cell(48 + n)>> ELSE Digits(n \div 10) \o <<Cell(48 + (n % 10))>>

\* operator<<(std::ostream&, int): the decimal text of an int
IntText(v) == IF v < 0 THEN <<Cell(45)>> \o Digits(-v) ELSE Digits(v)

\* ---------------------------------------------------------- the arguments
\* An argument is [kind, val, mem]:
\*   "int"    a trivially-copyable value, val its value;
\*   "cstr"   a const char*, mem the bytes it points to (text, then NUL);
\*   "string" a std::string, mem the bytes of c_str(): length() chars, then NUL;
\*   "array"  a char[N], mem its N bytes (a string literal is a char[length + 1]).
IntArg(v) == [kind |-> "int", val |-> v, mem |-> <<>>]
TextArg(k, m) == [kind |-> k, val |-> 0, mem |-> m]

\* length of the long text: with its terminator and the header it no longer fits an int
HugeLen == IntMax - SizeofHeader

IsHuge(arg) == \E i \in DOMAIN arg.mem : arg.mem[i][2] > 1

Texts == { <<>>, <<Cell(97)>>, <<Cell(Pct), Cell(97)>> }

ArgValues ==
    {IntArg(v) : v \in {7, -1, 258}}
    \cup {TextArg("cstr", t \o <<Cell(NUL)>>) : t \in Texts}
    \cup {TextArg("string", t \o <<Cell(NUL)>>) :
             t \in Texts \cup { <<Cell(97), Cell(NUL), Cell(98)>>, << <<122, HugeLen>> >> }}
    \cup {TextArg("array", m) :
             m \in { <<Cell(NUL)>>,
                     <<Cell(97), Cell(NUL)>>,
                     <<Cell(97), Cell(NUL), Cell(NUL), Cell(NUL)>> }}

\* the argument lists of a call: at most one long text, so that sizes stay below 2^31
ArgLists ==
    {as \in UNION {[1..n -> ArgValues] : n \in 0..MaxArgs} :
        Cardinality({i \in DOMAIN as : IsHuge(as[i])}) <= 1}

FormatStrings == UNION {[1..n -> {Cell(97), Cell(Pct)}] : n \in 0..MaxFmtLen}

\* sizeof...(Types)
sizeof_args(args) == Len(args)

RECURSIVE CountPlaceholders_FirstOnly(_)
\* a CountPlaceholders that stops counting at the first '%'
CountPlaceholders_FirstOnly(formatString) ==
    IF formatString = <<>> THEN 0
    ELSE IF formatString[1][1] = Pct THEN 1
         ELSE CountPlaceholders_FirstOnly(Tail(formatString))

RECURSIVE CountPlaceholders(_)
CountPlaceholders(formatString) ==
    IF formatString = <<>> THEN 0
    ELSE (IF formatString[1][1] = Pct THEN 1 ELSE 0)
         + CountPlaceholders(Tail(formatString))

\* sizeof(Arg) for the type Arg deduced from the argument
SizeofArg(arg) ==
    CASE arg.kind = "int" -> SizeofInt
      [] arg.kind = "cstr" -> SizeofPtr
      [] arg.kind = "string" -> SizeofString
      [] arg.kind = "array" -> Width(arg.mem)

\* the type WriteLog deduces for an argument: what FormatArgs is instantiated with
TypeOf(arg) == [kind |-> arg.kind, size |-> SizeofArg(arg)]

\* std::string::length(): every char of the string, the terminator excluded
StringLength(arg) == Width(arg.mem) - 1

\* === GetArgsSize ===
\* int: the template (sizeof); const char* and char[N]: strlen + 1;
\* std::string: length() + 1
GetArgSize(arg) ==
    CASE arg.kind = "int" -> SizeofInt
      [] arg.kind = "string" -> StringLength(arg) + 1
      [] OTHER -> StrLen(arg.mem) + 1

RECURSIVE GetArgsSize(_)
GetArgsSize(args) ==
    IF args = <<>> THEN 0 ELSE GetArgSize(Head(args)) + GetArgsSize(Tail(args))

\* === CopyArgs ===
\* what one CopyArg stores at the cursor and how far it moves the cursor
CopyArg(arg) ==
    IF arg.kind = "int"
    THEN [bytes |-> IntBytes(arg.val), adv |-> SizeofArg(arg)]
    ELSE [bytes |-> StrPrefix(arg.mem) \o <<Cell(NUL)>>, adv |-> StrLen(arg.mem) + 1]

RECURSIVE CopyArgs(_)
\* the bytes written from argsBuffer on, the end cursor (end - argsBuffer), and
\* the width written for each argument
CopyArgs(args) ==
    IF args = <<>> THEN [bytes |-> <<>>, end |-> 0, widths |-> <<>>, parts |-> <<>>]
    ELSE LET one == CopyArg(Head(args))
             rest == CopyArgs(Tail(args))
         IN  [bytes |-> one.bytes \o rest.bytes,
              end |-> one.adv + rest.end,
              widths |-> <<one.adv>> \o rest.widths,
              parts |-> <<one.bytes>> \o rest.parts]

\* === Formatting ===
\* FormatArg<Arg>: the text written to the stream and the cursor movement.
\* const char* and std::string are specialized (strlen); every other type,
\* char[N] included, goes through the primary template (operator<<, sizeof(Arg)).
FormatArg(type, mem, cursor) ==
    LET at == DropBytes(mem, cursor) IN
    CASE type.kind \in {"cstr", "string"} ->
             [text |-> StrPrefix(at), adv |-> StrLen(at) + 1]
      [] type.kind = "array" -> [text |-> StrPrefix(at), adv |-> type.size]
      [] OTHER -> [text |-> IntText(IntAt(mem, cursor)), adv |-> type.size]

RECURSIVE FormatArgs(_, _, _, _)
\* FormatArgs<Args...>(s, format, buffer): out is what reaches the stream, cursor
\* the final payload cursor, advs the movement and texts the text per argument,
\* missing whether strstr found no '%' for an argument
FormatArgs(types, format, mem, cursor) ==
    IF types = <<>>
    THEN [out |-> format \o <<Cell(NL)>>, cursor |-> cursor, advs |-> <<>>,
          texts |-> <<>>, missing |-> FALSE]
    ELSE LET placeholder == StrStr(format) IN
         IF placeholder = 0
         THEN [out |-> <<>>, cursor |-> cursor, advs |-> <<>>, texts |-> <<>>,
               missing |-> TRUE]
         ELSE LET one == FormatArg(Head(types), mem, cursor)
                  rest == FormatArgs(Tail(types),
                                     SubSeq(format, placeholder + 1, Len(format)),
                                     mem, cursor + one.adv)
              IN  [out |-> SubSeq(format, 1, placeholder - 1) \o one.text \o rest.out,
                   cursor |-> rest.cursor,
                   advs |-> <<one.adv>> \o rest.advs,
                   texts |-> <<one.text>> \o rest.texts,
                   missing |-> rest.missing]

\* a WriteLog that asks for the payload bytes only, the header forgotten
SizeToInt_NoHeader(argsSize, headerSize) == argsSize

\* a WriteLog that stores a payload size one too large
Header_OffByOne(argsSize, formatString, args) ==
    [ArgsSize |-> argsSize + 1, FormatString |-> formatString,
     Formatter |-> [i \in DOMAIN args |-> TypeOf(args[i])]]

\* a WriteLog that leaves Header.ArgsSize at zero
Header_NoSize(argsSize, formatString, args) ==
    [ArgsSize |-> 0, FormatString |-> formatString,
     Formatter |-> [i \in DOMAIN args |-> TypeOf(args[i])]]

\* === Writing to buffer ===
\* the conversion of argsSize + sizeof(Header), a size_t, to GetWriteBuffer's int
SizeToInt(argsSize, headerSize) ==
    IF argsSize <= IntMax - headerSize THEN argsSize + headerSize
    ELSE ((argsSize - IntMax) + (headerSize - IntMax)) - 2

Header(argsSize, formatString, args) ==
    [ArgsSize |-> argsSize, FormatString |-> formatString,
     Formatter |-> [i \in DOMAIN args |-> TypeOf(args[i])]]

\* WriteLog run from start to end: the size handed to GetWriteBuffer, the header
\* and payload stored in the region, the end cursor and the assertion's verdict
WriteLog(formatString, args) ==
    LET argsSize == GetArgsSize(args)
        copied == CopyArgs(args)
    IN  [size |-> SizeToInt(argsSize, SizeofHeader),
         hdr |-> Header(argsSize, formatString, args),
         payload |-> copied.bytes,
         end |-> copied.end,
         widths |-> copied.widths,
         parts |-> copied.parts,
         assertOk |-> (copied.end = argsSize)]

\* ------------------------------------------------------------------ state
Producers == {1, 2}

VARIABLES
    call,      \* one log call under study: [fmt, args]
    cpc,       \* where that call is: "call", "rejected", "written", "aborted", "formatted"
    rec,       \* the record the call wrote
    result,    \* what the record's formatter produced
    regions,   \* the channel's buffer: the regions handed out, in address order
    writePos,  \* the channel's write offset
    readPos,   \* the channel's read offset
    ppc,       \* per producer: the statement of WriteLog it is about to execute
    plocal,    \* per producer: the locals of its WriteLog call
    kpc,       \* the consumer: "idle", "next" (about to call GetNextReadBuffer), "format"
    kbuf,      \* the consumer: the region GetNextReadBuffer returned (0: no record there)
    drains,    \* number of Consume calls so far
    sink       \* the lines written to the stream: [id, text, drain]

codecVars == <<call, cpc, rec, result>>
chanVars == <<regions, writePos, readPos, ppc, plocal, kpc, kbuf, drains, sink>>
vars == <<call, cpc, rec, result, regions, writePos, readPos, ppc, plocal, kpc, kbuf,
          drains, sink>>

NoRec == WriteLog(<<>>, <<>>)
NoResult == FormatArgs(<<>>, <<>>, <<>>, 0)
NoCall == [fmt |-> <<>>, args |-> <<>>]
NoLocal == [call |-> NoCall, argsSize |-> 0, data |-> 0, n |-> 0, end |-> 0]

\* memory that follows the written payload bytes: bytes of the region the
\* serializer left untouched, then whatever lies behind the region
Tails ==
    { << <<NUL, 8>> >>,
      <<Cell(98), Cell(NUL), Cell(9), Cell(NUL), Cell(NUL), Cell(NUL), Cell(NUL), Cell(NUL)>> }

\* the static_assert of LOG holds and WriteLog<Args...> can be instantiated:
\* with no argument WriteLog calls GetArgsSize<>(), which matches no overload
\* (the base case GetArgsSize() is not a template), so the call does not compile
Compiles(c) ==
    /\ CountPlaceholders(c.fmt) = sizeof_args(c.args)
    /\ c.args # <<>>

ChannelIdle ==
    /\ regions = <<>>
    /\ writePos = 0
    /\ readPos = 0
    /\ ppc = [p \in Producers |-> "idle"]
    /\ plocal = [p \in Producers |-> NoLocal]
    /\ kpc = "idle"
    /\ kbuf = 0
    /\ drains = 0
    /\ sink = <<>>

\* ---------------------------------------------------- one call, end to end
CodecInit ==
    /\ call \in [fmt : FormatStrings, args : ArgLists]
    /\ cpc = "call"
    /\ rec = NoRec
    /\ result = NoResult
    /\ ChannelIdle

\* the call does not compile and writes nothing
LogRejected ==
    /\ cpc = "call"
    /\ ~Compiles(call)
    /\ cpc' = "rejected"
    /\ UNCHANGED <<call, rec, result>>
    /\ UNCHANGED chanVars

\* LOG: the call compiles and WriteLog runs; a failed assert(end - argsBuffer ==
\* argsSize) aborts a debug build and is compiled out of a release build
LOG ==
    /\ cpc = "call"
    /\ Compiles(call)
    /\ rec' = WriteLog(call.fmt, call.args)
    /\ \/ cpc' = "written" /\ rec'.assertOk
       \/ cpc' = "written" /\ ~rec'.assertOk
       \/ cpc' = "aborted" /\ ~rec'.assertOk
    /\ UNCHANGED <<call, result>>
    /\ UNCHANGED chanVars

\* the consumer invokes header->Formatter(stream, header->FormatString, payload)
Format ==
    /\ cpc = "written"
    /\ \E tail \in Tails :
           result' = FormatArgs(rec.hdr.Formatter, rec.hdr.FormatString,
                                rec.payload \o tail, 0)
    /\ cpc' = "formatted"
    /\ UNCHANGED <<call, rec>>
    /\ UNCHANGED chanVars

CodecNext == LogRejected \/ LOG \/ Format

CodecSpec == CodecInit /\ [][CodecNext]_vars

\* ------------------------------------------------------------ the channel
\* the log calls of the producers: payloads of 2 and 5 bytes
ChanCalls ==
    { [fmt |-> <<Cell(97), Cell(Pct)>>,
       args |-> <<TextArg("cstr", <<Cell(97), Cell(NUL)>>)>>],
      [fmt |-> <<Cell(Pct), Cell(Pct)>>,
       args |-> <<TextArg("string", <<Cell(NUL)>>), IntArg(258)>>] }

HeaderFields == {"ArgsSize", "FormatString", "Formatter"}

\* GetWriteBuffer(size): the next size bytes of the buffer, nothing stored in them
\* yet; c records the call the region was handed to
GetWriteBuffer(size, c) ==
    [start |-> writePos, size |-> size, stored |-> {},
     hdr |-> Header(0, <<>>, <<>>), payload |-> <<>>, call |-> c]

\* the region that starts at offset off, 0 when no region starts there
RegionAt(off) ==
    IF \E i \in DOMAIN regions : regions[i].start = off
    THEN CHOOSE i \in DOMAIN regions : regions[i].start = off
    ELSE 0

\* the writer of region i has returned from WriteLog
Completed(i) == \A p \in Producers : ppc[p] = "idle" \/ plocal[p].data # i

\* GetNextReadBuffer(): the record at the read offset and the read offset behind
\* it (header, then Header.ArgsSize payload bytes); idx = -1 stands for nullptr,
\* returned when nothing is pending or the next record is still being written;
\* idx = 0 when the read offset is not the start of a record
GetNextReadBuffer ==
    IF readPos >= writePos THEN [idx |-> -1, next |-> readPos]
    ELSE LET i == RegionAt(readPos) IN
         IF i = 0 THEN [idx |-> 0, next |-> writePos]
         ELSE IF ~Completed(i) THEN [idx |-> -1, next |-> readPos]
         ELSE [idx |-> i, next |-> readPos + SizeofHeader + regions[i].hdr.ArgsSize]

Init ==
    /\ call = NoCall
    /\ cpc = "unused"
    /\ rec = NoRec
    /\ result = NoResult
    /\ ChannelIdle

\* LOG(...) up to WriteLog's call of GetWriteBuffer (lines 156-161)
Acquire(p) ==
    /\ ppc[p] = "idle"
    /\ Len(regions) < MaxRecords
    /\ \E c \in ChanCalls :
         /\ Compiles(c)
         /\ LET argsSize == GetArgsSize(c.args)
                size == SizeToInt(argsSize, SizeofHeader)
            IN  /\ regions' = Append(regions, GetWriteBuffer(size, c))
                /\ writePos' = writePos + size
                /\ plocal' = [plocal EXCEPT ![p] =
                                 [call |-> c, argsSize |-> argsSize,
                                  data |-> Len(regions) + 1, n |-> 0, end |-> 0]]
    /\ ppc' = [ppc EXCEPT ![p] = "argsSize"]
    /\ UNCHANGED <<readPos, kpc, kbuf, drains, sink>>
    /\ UNCHANGED codecVars

\* the header WriteLog is storing, field by field
HeaderOf(p) == Header(plocal[p].argsSize, plocal[p].call.fmt, plocal[p].call.args)

StoreField(p, field, value, then) ==
    /\ regions' = [regions EXCEPT ![plocal[p].data] =
                      [@ EXCEPT !.hdr = [@ EXCEPT ![field] = value],
                                !.stored = @ \cup {field}]]
    /\ ppc' = [ppc EXCEPT ![p] = then]
    /\ UNCHANGED <<writePos, readPos, plocal, kpc, kbuf, drains, sink>>
    /\ UNCHANGED codecVars

\* header->ArgsSize = argsSize;
StoreArgsSize(p) ==
    /\ ppc[p] = "argsSize"
    /\ StoreField(p, "ArgsSize", HeaderOf(p).ArgsSize, "formatString")

\* header->FormatString = formatString;
StoreFormatString(p) ==
    /\ ppc[p] = "formatString"
    /\ StoreField(p, "FormatString", HeaderOf(p).FormatString, "formatter")

\* a WriteLog that never stores the formatter
StoreFormatter_Skipped(p) ==
    /\ ppc[p] = "formatter"
    /\ ppc' = [ppc EXCEPT ![p] = "copy"]
    /\ UNCHANGED <<regions, writePos, readPos, plocal, kpc, kbuf, drains, sink>>
    /\ UNCHANGED codecVars

\* header->Formatter = FormatArgs<Args...>;
StoreFormatter(p) ==
    /\ ppc[p] = "formatter"
    /\ StoreField(p, "Formatter", HeaderOf(p).Formatter, "copy")

\* CopyArgs, one CopyArg at a time
CopyNextArg(p) ==
    /\ ppc[p] = "copy"
    /\ plocal[p].n < Len(plocal[p].call.args)
    /\ LET one == CopyArg(plocal[p].call.args[plocal[p].n + 1]) IN
         /\ regions' = [regions EXCEPT ![plocal[p].data].payload = @ \o one.bytes]
         /\ plocal' = [plocal EXCEPT ![p].n = @ + 1, ![p].end = @ + one.adv]
    /\ UNCHANGED <<writePos, readPos, ppc, kpc, kbuf, drains, sink>>
    /\ UNCHANGED codecVars

\* CopyArgs returns; assert(end - argsBuffer == argsSize); WriteLog returns
Return(p) ==
    /\ ppc[p] = "copy"
    /\ plocal[p].n = Len(plocal[p].call.args)
    /\ ppc' = [ppc EXCEPT ![p] =
                  IF plocal[p].end = plocal[p].argsSize THEN "idle" ELSE "aborted"]
    /\ UNCHANGED <<regions, writePos, readPos, plocal, kpc, kbuf, drains, sink>>
    /\ UNCHANGED codecVars

\* Consume() is called
ConsumeCall ==
    /\ kpc = "idle"
    /\ drains < MaxDrains
    /\ kpc' = "next"
    /\ drains' = drains + 1
    /\ UNCHANGED <<regions, writePos, readPos, ppc, plocal, kbuf, sink>>
    /\ UNCHANGED codecVars

\* Consume's loop test: GetNextReadBuffer(); nullptr ends the drain
ConsumeNext ==
    /\ kpc = "next"
    /\ LET buffer == GetNextReadBuffer IN
         /\ readPos' = buffer.next
         /\ IF buffer.idx = -1
            THEN kpc' = "idle" /\ kbuf' = kbuf
            ELSE kpc' = "format" /\ kbuf' = buffer.idx
    /\ UNCHANGED <<regions, writePos, ppc, plocal, drains, sink>>
    /\ UNCHANGED codecVars

\* the line the formatter of region i writes; where no record starts, whatever
\* the bytes found there make of it
Line(i) ==
    IF i = 0 THEN <<>>
    ELSE FormatArgs(regions[i].hdr.Formatter, regions[i].hdr.FormatString,
                    regions[i].payload, 0).out

\* Consume's loop body: header->Formatter(stream, header->FormatString, payload)
ConsumeFormat ==
    /\ kpc = "format"
    /\ sink' = Append(sink, [id |-> kbuf, text |-> Line(kbuf), drain |-> drains])
    /\ kpc' = "next"
    /\ UNCHANGED <<regions, writePos, readPos, ppc, plocal, kbuf, drains>>
    /\ UNCHANGED codecVars

Producer(p) ==
    \/ Acquire(p)
    \/ StoreArgsSize(p)
    \/ StoreFormatString(p)
    \/ StoreFormatter(p)
    \/ CopyNextArg(p)
    \/ Return(p)

Consume == ConsumeNext \/ ConsumeFormat

Next == (\E p \in Producers : Producer(p)) \/ ConsumeCall \/ Consume

Spec == Init /\ [][Next]_vars

\* the consumer's thread keeps running once it is inside Consume: it takes its
\* next step. A step that takes kpc from "format" to "next" is a ConsumeFormat
\* step, and ConsumeFormat is enabled exactly when kpc = "format".
FairSpec ==
    Spec /\ WF_vars(ConsumeNext) /\ WF_kpc(kpc = "format" /\ kpc' = "next")

\* ------------------------------------------------- claims about one call
\* a record exists: WriteLog has stored header and payload
Recorded == cpc \in {"written", "aborted", "formatted"}

\* the text of an argument formatted directly: operator<< on the value itself
ArgText(arg) ==
    CASE arg.kind = "int" -> IntText(arg.val)
      [] arg.kind = "string" -> SubSeq(arg.mem, 1, Len(arg.mem) - 1)
      [] OTHER -> StrPrefix(arg.mem)

RECURSIVE Substitute(_, _)
\* the format string with its k-th '%' replaced by the text of the k-th argument
Substitute(format, args) ==
    IF format = <<>> THEN <<>>
    ELSE IF format[1][1] = Pct /\ args # <<>>
         THEN ArgText(Head(args)) \o Substitute(Tail(format), Tail(args))
         ELSE <<format[1]>> \o Substitute(Tail(format), args)

\* number of '%' characters of a format string
NumPct(format) == Cardinality({i \in DOMAIN format : format[i][1] = Pct})

\* length of a text argument: length() of a std::string, strlen of the others
TextLength(arg) == IF arg.kind = "string" THEN StringLength(arg) ELSE StrLen(arg.mem)

\* the characters of a text argument
TextChars(arg) ==
    IF arg.kind = "string" THEN SubSeq(arg.mem, 1, Len(arg.mem) - 1)
    ELSE StrPrefix(arg.mem)

\* C3: for N >= 0 arguments and a format string with N '%', WriteLog writes a
\* record, and the formatter bound to it writes the format string with its k-th
\* '%' replaced by the text of the k-th argument, then one line terminator (for
\* no arguments: the format string and the line terminator).
C3_FormatIsSubstitution ==
    /\ cpc = "rejected" => NumPct(call.fmt) # Len(call.args)
    /\ cpc = "formatted" =>
           result.out = Substitute(call.fmt, call.args) \o <<Cell(NL)>>

\* C4: CopyArgs moves the cursor by exactly GetArgsSize of the same arguments, so
\* the assertion that ends WriteLog never fails.
C4_CopiedSizeIsComputedSize ==
    Recorded => rec.end = GetArgsSize(call.args) /\ rec.assertOk /\ cpc # "aborted"

\* C5: decoding moves the payload cursor, argument by argument, by the width
\* CopyArg wrote for that argument, and ends exactly Header.ArgsSize bytes in.
C5_DecodeMirrorsEncode ==
    cpc = "formatted" =>
        result.advs = rec.widths /\ result.cursor = rec.hdr.ArgsSize

\* C8: every record has as many '%' in its format string as arguments in its
\* payload, a call whose counts differ leaves no record, and FormatArgs finds a
\* '%' for every argument it decodes.
C8_PlaceholdersMatchArguments ==
    /\ Recorded =>
           /\ NumPct(call.fmt) = Len(call.args)
           /\ NumPct(rec.hdr.FormatString) = Len(rec.hdr.Formatter)
           /\ Len(rec.parts) = Len(rec.hdr.Formatter)
    /\ cpc = "rejected" => rec = NoRec
    /\ cpc = "formatted" => ~result.missing /\ Len(result.texts) = Len(call.args)

C8_Witness ==
    /\ cpc = "formatted"
    /\ Len(call.args) = 2
    /\ NumPct(rec.hdr.FormatString) = 2
    /\ Len(call.fmt) > 2

\* C9: a text argument of length L is encoded as L + 1 bytes, its L characters
\* and one terminator, and is emitted unmodified at its placeholder (an empty
\* text: one terminator byte, an empty substitution).
C9_TextEncodedWithTerminator ==
    \A k \in DOMAIN call.args :
        call.args[k].kind # "int" =>
            /\ Recorded =>
                   /\ rec.widths[k] = TextLength(call.args[k]) + 1
                   /\ rec.parts[k] = TextChars(call.args[k]) \o <<Cell(NUL)>>
            /\ cpc = "formatted" => result.texts[k] = TextChars(call.args[k])

\* C10: the size WriteLog asks GetWriteBuffer for is sizeof(Header) + argsSize,
\* unchanged by the conversion to int, and Header.ArgsSize is the number of
\* payload bytes written.
C10_RequestedSizeFits ==
    Recorded =>
        /\ rec.size >= SizeofHeader
        /\ rec.size - SizeofHeader = rec.hdr.ArgsSize
        /\ rec.hdr.ArgsSize = rec.end

\* ---------------------------------------------- claims about the channel
\* region i holds a completely written record: every header field stored with
\* the value WriteLog computes for the call, every payload byte in place
FullyWritten(i) ==
    LET c == regions[i].call IN
    /\ regions[i].stored = HeaderFields
    /\ regions[i].hdr.ArgsSize = GetArgsSize(c.args)
    /\ regions[i].hdr.FormatString = c.fmt
    /\ regions[i].hdr.Formatter = [k \in DOMAIN c.args |-> TypeOf(c.args[k])]
    /\ regions[i].payload = CopyArgs(c.args).bytes

InSink(i) == \E k \in DOMAIN sink : sink[k].id = i

\* the records not formatted yet
Pending == {i \in DOMAIN regions : ~InSink(i)}

\* a record is available: the oldest record not formatted yet is one whose
\* writer has returned
Available ==
    /\ Pending # {}
    /\ LET i == CHOOSE i \in Pending : \A j \in Pending : i <= j
       IN  \A p \in Producers : ppc[p] = "idle" \/ plocal[p].data # i

C2_DrainedInWriteOrder ==
    \A k \in DOMAIN sink :
        /\ sink[k].id = k
        /\ k \in DOMAIN regions
        /\ sink[k].text =
               Substitute(regions[k].call.fmt, regions[k].call.args) \o <<Cell(NL)>>

C2_Witness ==
    /\ Len(sink) = 3
    /\ regions[1].size > regions[2].size
    /\ regions[2].size < regions[3].size

\* C6: every record is formatted exactly once: no record twice (by one drain or
\* by two), only completely written records, and none skipped.
C6_FormattedExactlyOnce ==
    /\ \A j, k \in DOMAIN sink : j # k => sink[j].id # sink[k].id
    /\ \A k \in DOMAIN sink : sink[k].id \in DOMAIN regions /\ FullyWritten(sink[k].id)
    /\ \A i \in DOMAIN regions :
           (InSink(i) \/ (kpc = "format" /\ kbuf = i)) => \A j \in 1..(i - 1) : InSink(j)
    /\ (kpc = "idle" /\ readPos >= writePos /\ \A p \in Producers : ppc[p] = "idle")
           => Pending = {}

C6_Witness ==
    /\ Len(sink) >= 2
    /\ sink[1].drain # sink[2].drain
    /\ Pending = {}

====
